---- MODULE Spec2Model ----
(***************************************************************************)
(* DatabaseOrdinary: the catalog of tables of one database, kept in memory *)
(* as a name -> table map under a mutex and on disk as one metadata file   *)
(* per table.  The model follows dbms/src/Databases/DatabaseOrdinary.cpp:  *)
(* the constructor (loading the metadata directory), createTable,          *)
(* attachTable, detachTable, removeTable, getIterator, getCreateQuery and  *)
(* shutdown, each split at the points where the code takes or releases    *)
(* the mutex or touches the file system.                                   *)
(***************************************************************************)
EXTENDS Integers, Sequences, FiniteSets, TLC

(***************************************************************************)
(* Bounds of the model.                                                    *)
(***************************************************************************)
\* Number of client threads calling into the catalog.
NumThreads == 2
\* Total number of calls the threads make in one behaviour.
MaxCalls == 3
\* Number of process crashes followed by a restart in one behaviour.
MaxCrashes == 1
\* Tables per unit of parallel loading.  The source fixes it at
\* TABLES_PARALLEL_LOAD_BUNCH_SIZE; the loading specifications scale it
\* down so that several units appear with a handful of tables.
BunchSize == 2

\* DatabaseOrdinary.cpp:32
TABLES_PARALLEL_LOAD_BUNCH_SIZE == 100

Threads == 1..NumThreads

(***************************************************************************)
(* Strings are sequences of one-character strings, so that suffixes,       *)
(* prefixes and the byte order std::sort uses can be computed.             *)
(***************************************************************************)
CharCode ==
    ("%" :> 37) @@ ("." :> 46) @@ ("2" :> 50) @@ ("5" :> 53) @@ ("E" :> 69) @@
    ("a" :> 97) @@ ("b" :> 98) @@ ("c" :> 99) @@ ("d" :> 100) @@ ("e" :> 101) @@
    ("i" :> 105) @@ ("k" :> 107) @@ ("l" :> 108) @@ ("m" :> 109) @@
    ("n" :> 110) @@ ("p" :> 112) @@ ("q" :> 113) @@ ("r" :> 114) @@
    ("s" :> 115) @@ ("t" :> 116) @@ ("v" :> 118) @@ ("x" :> 120) @@ ("z" :> 122)

\* std::string operator< : byte-wise lexicographic order.
RECURSIVE StrLess(_, _)
StrLess(s1, s2) ==
    IF s2 = <<>> THEN FALSE
    ELSE IF s1 = <<>> THEN TRUE
    ELSE IF CharCode[Head(s1)] # CharCode[Head(s2)]
         THEN CharCode[Head(s1)] < CharCode[Head(s2)]
         ELSE StrLess(Tail(s1), Tail(s2))

\* std::sort of a vector of distinct strings, given as the set of its elements.
RECURSIVE SortStrings(_)
SortStrings(S) ==
    IF S = {} THEN <<>>
    ELSE LET m == CHOOSE x \in S : \A y \in S \ {x} : StrLess(x, y)
         IN  <<m>> \o SortStrings(S \ {m})

IsSorted(seq) == \A i \in 1..(Len(seq) - 1) : StrLess(seq[i], seq[i + 1])

Range(seq) == {seq[i] : i \in 1..Len(seq)}

endsWith(s, suffix) ==
    /\ Len(s) >= Len(suffix)
    /\ SubSeq(s, Len(s) - Len(suffix) + 1, Len(s)) = suffix

\* 0 == s.compare(0, strlen(prefix), prefix)
startsWith(s, prefix) ==
    /\ Len(s) >= Len(prefix)
    /\ SubSeq(s, 1, Len(prefix)) = prefix

SQL == <<".", "s", "q", "l">>
SQL_TMP == <<".", "s", "q", "l", ".", "t", "m", "p">>
SQL_BAK == <<".", "s", "q", "l", ".", "b", "a", "k">>
INNER_PREFIX == <<"%", "2", "E", "i", "n", "n", "e", "r", "%", "2", "E">>

\* escapeForFileName: word characters are kept, any other byte becomes %XX.
EscapedChar ==
    ("." :> <<"%", "2", "E">>) @@ ("%" :> <<"%", "2", "5">>) @@
    [c \in {"a", "b", "c", "d", "e", "i", "k", "l", "m", "n", "p", "q", "r",
            "s", "t", "v", "x", "z", "2", "5", "E"} |-> <<c>>]

RECURSIVE escapeForFileName(_)
escapeForFileName(s) ==
    IF s = <<>> THEN <<>>
    ELSE EscapedChar[Head(s)] \o escapeForFileName(Tail(s))

(***************************************************************************)
(* The metadata directory of a database: a function from the names of the *)
(* files present to their content.  A content is the text of a statement, *)
(* <<>> for a zero-byte file.                                              *)
(***************************************************************************)
NoFiles == [x \in {} |-> <<>>]

WriteFile(dir, file, content) ==
    [x \in DOMAIN dir \cup {file} |-> IF x = file THEN content ELSE dir[x]]

RemoveFile(dir, file) == [x \in DOMAIN dir \ {file} |-> dir[x]]

Exists(dir, file) == file \in DOMAIN dir

(***************************************************************************)
(* ASTCreateQuery, its text, and the parser.                               *)
(***************************************************************************)
CreateQuery(table, database, storage, select, if_not_exists, is_populate, as_database, as_table) ==
    [table |-> table, database |-> database, storage |-> storage,
     select |-> select, if_not_exists |-> if_not_exists,
     is_populate |-> is_populate, as_database |-> as_database,
     as_table |-> as_table, attach |-> FALSE]

\* formatAST: the statement as a sequence of tokens, an absent clause as "".
formatAST(ast) ==
    << IF ast.attach THEN "ATTACH" ELSE "CREATE",
       IF ast.if_not_exists THEN "IF NOT EXISTS" ELSE "",
       ast.database, ast.table, ast.storage,
       ast.as_database, ast.as_table,
       IF ast.is_populate THEN "POPULATE" ELSE "",
       ast.select >>

EndOfLine == <<"\n">>
Garbage == <<"garbage">>

\* Whether ParserCreateQuery accepts the text (trailing white space allowed).
Parses(text) ==
    /\ Len(text) \in {9, 10}
    /\ text[1] \in {"ATTACH", "CREATE"}
    /\ Len(text) = 10 => text[10] = "\n"

parseQuery(text) ==
    [table |-> text[4], database |-> text[3], storage |-> text[5],
     select |-> text[9], if_not_exists |-> text[2] # "",
     is_populate |-> text[8] # "", as_database |-> text[6],
     as_table |-> text[7], attach |-> text[1] = "ATTACH"]


(***************************************************************************)
(* State.                                                                  *)
(***************************************************************************)
VARIABLES
    tables,     \* per database: the map table name -> table (StoragePtr)
    mutex,      \* per database: the thread holding the mutex, 0 when free
    files,      \* per database: the metadata directory
    shut,       \* the tables whose shutdown() has been called
    pc,         \* per thread: the place in the method it is running
    arg,        \* per thread: the arguments of the call
    loc,        \* per thread: the locals of the call
    out,        \* per thread: how the last call ended
    calls,      \* calls made so far
    crashes,    \* process crashes so far
    boot,       \* the constructor's locals while it loads the directory
    log,        \* what the constructor did, in order: files removed, tables loaded
    data        \* the tables whose rename() has moved their data, and where to

vars == <<tables, mutex, files, shut, pc, arg, loc, out, calls, crashes, boot, log, data>>

Databases == {"default", "other"}

\* A table object: who built it (a thread, or 0 for the loader) and for which name.
Storage(by, of) == [by |-> by, of |-> of]
NoStorage == Storage(-1, <<>>)

NoTables == [x \in {} |-> NoStorage]

NoArg == [table |-> NoStorage, op |-> "", db |-> "", name |-> <<>>,
          query |-> CreateQuery(<<>>, "", "", "", FALSE, FALSE, "", <<>>),
          engine |-> "", to_database |-> "", to_table_name |-> <<>>]

NoLoc == [ast |-> CreateQuery(<<>>, "", "", "", FALSE, FALSE, "", <<>>),
          res |-> NoStorage, exc |-> "", statement |-> <<>>,
          snapshot |-> <<>>, it |-> 0, seen |-> <<>>, caller |-> <<>>]

NoOut == [table |-> NoStorage, status |-> "none", code |-> ""]

\* The metadata paths of a table, relative to the database's directory.
MetadataTmpPath(table_name) == escapeForFileName(table_name) \o SQL_TMP
MetadataPath(table_name) == escapeForFileName(table_name)

\* The end of a method: back in the caller, which is the client (the thread
\* is idle again) or, for the createTable and the removeTable that
\* renameTable calls, renameTable (loc[t].caller is set).
Return(t, table) ==
    /\ out' = [out EXCEPT ![t] = [table |-> table, status |-> "ok", code |-> ""]]
    /\ pc' = [pc EXCEPT ![t] = IF loc[t].caller = <<>> THEN "idle"
                                ELSE "rename_returned"]

Throw(t, code) ==
    /\ out' = [out EXCEPT ![t] = [table |-> NoStorage, status |-> "error", code |-> code]]
    /\ pc' = [pc EXCEPT ![t] = IF loc[t].caller = <<>> THEN "idle"
                                ELSE "rename_thrown"]

Goto(t, label) == pc' = [pc EXCEPT ![t] = label]

\* std::lock_guard<std::mutex> lock(mutex): the constructor of the guard.
Lock(t, from, to) ==
    /\ pc[t] = from
    /\ mutex[arg[t].db] = 0
    /\ mutex' = [mutex EXCEPT ![arg[t].db] = t]
    /\ Goto(t, to)
    /\ UNCHANGED <<tables, files, shut, arg, loc, out, calls, crashes, boot, log, data>>

\* The destructor of the guard, on leaving the scope normally or by a throw.
Unlock(t) == mutex' = [mutex EXCEPT ![arg[t].db] = 0]

Insert(map, name, table) ==
    [x \in DOMAIN map \cup {name} |-> IF x = name THEN table ELSE map[x]]

Erase(map, name) == [x \in DOMAIN map \ {name} |-> map[x]]

\* A thread enters a method of the database object.
Call(t, a, entry) ==
    /\ pc[t] = "idle"
    /\ boot.phase = "done"
    /\ calls < MaxCalls
    /\ calls' = calls + 1
    /\ arg' = [arg EXCEPT ![t] = a]
    /\ loc' = [loc EXCEPT ![t] = NoLoc]
    /\ out' = [out EXCEPT ![t] = NoOut]
    /\ Goto(t, entry)
    /\ UNCHANGED <<tables, mutex, files, shut, crashes, boot, log, data>>

(***************************************************************************)
(* createTable                                                             *)
(***************************************************************************)
CallCreate(t, db, name, query, engine) ==
    Call(t, [table |-> Storage(t, name), op |-> "createTable", db |-> db,
             name |-> name, query |-> query, engine |-> engine,
             to_database |-> "", to_table_name |-> <<>>],
         "create_lock1")

CreateLock1(t) == Lock(t, "create_lock1", "create_check")

\* A createTable whose first lock_guard lives to the end of the function.
CreateCheckKeepsLock(t) ==
    /\ pc[t] = "create_check"
    /\ IF arg[t].name \in DOMAIN tables[arg[t].db]
       THEN Throw(t, "TABLE_ALREADY_EXISTS")
       ELSE Goto(t, "create_open") /\ out' = out
    /\ UNCHANGED <<tables, mutex, files, shut, arg, loc, calls, crashes, boot, log, data>>

\* if (tables.count(table_name)) throw TABLE_ALREADY_EXISTS
CreateCheck(t) ==
    /\ pc[t] = "create_check"
    /\ Unlock(t)
    /\ IF arg[t].name \in DOMAIN tables[arg[t].db]
       THEN Throw(t, "TABLE_ALREADY_EXISTS")
       ELSE Goto(t, "create_open") /\ out' = out
    /\ UNCHANGED <<tables, files, shut, arg, loc, calls, crashes, boot, log, data>>

\* A sanitization that leaves the select clause in place for every engine.
SanitizeKeepsSelect(query, engine) ==
    [query EXCEPT !.attach = TRUE, !.database = "", !.as_database = "",
                  !.as_table = <<>>, !.if_not_exists = FALSE,
                  !.is_populate = FALSE]

\* What is left of the query for ATTACH.
Sanitize(query, engine) ==
    [query EXCEPT !.attach = TRUE, !.database = "", !.as_database = "",
                  !.as_table = <<>>, !.if_not_exists = FALSE,
                  !.is_populate = FALSE,
                  !.select = IF engine # "View" /\ engine # "MaterializedView"
                             THEN "" ELSE @]

Statement(query, engine) == formatAST(Sanitize(query, engine)) \o EndOfLine

\* WriteBufferFromFile out(tmp_path, ..., O_WRONLY | O_CREAT | O_EXCL)
CreateOpenTmp(t) ==
    /\ pc[t] = "create_open"
    /\ LET db == arg[t].db
           tmp == MetadataTmpPath(arg[t].name)
       IN  IF Exists(files[db], tmp)
           THEN /\ Throw(t, "CANNOT_OPEN_FILE")
                /\ UNCHANGED <<files, loc>>
           ELSE /\ files' = [files EXCEPT ![db] = WriteFile(@, tmp, <<>>)]
                /\ loc' = [loc EXCEPT ![t].statement =
                                Statement(arg[t].query, arg[t].engine)]
                /\ Goto(t, "create_write")
                /\ out' = out
    /\ UNCHANGED <<tables, mutex, shut, arg, calls, crashes, boot, log, data>>

\* A createTable that goes on to the map with the temporary file still empty.
CreateWriteTmpLater(t) ==
    /\ pc[t] = "create_write"
    /\ Goto(t, "create_lock2")
    /\ UNCHANGED <<tables, mutex, files, shut, arg, loc, out, calls, crashes, boot, log, data>>

\* writeString(statement, out); out.next(); out.sync(); out.close();
CreateWriteTmp(t) ==
    /\ pc[t] = "create_write"
    /\ files' = [files EXCEPT ![arg[t].db] =
                    WriteFile(@, MetadataTmpPath(arg[t].name), loc[t].statement)]
    /\ Goto(t, "create_lock2")
    /\ UNCHANGED <<tables, mutex, shut, arg, loc, out, calls, crashes, boot, log, data>>

\* The write or the sync fails: the exception leaves createTable before its try block.
CreateWriteTmpFails(t) ==
    /\ pc[t] = "create_write"
    /\ Throw(t, "CANNOT_WRITE_TO_FILE")
    /\ UNCHANGED <<tables, mutex, files, shut, arg, loc, calls, crashes, boot, log, data>>

CreateLock2(t) == Lock(t, "create_lock2", "create_emplace")

\* createTable with tables[table_name] = table in place of the emplace.
CreateEmplaceOverwrites(t) ==
    /\ pc[t] = "create_emplace"
    /\ Unlock(t)
    /\ tables' = [tables EXCEPT ![arg[t].db] = Insert(@, arg[t].name, arg[t].table)]
    /\ Goto(t, "create_rename")
    /\ UNCHANGED <<files, shut, arg, loc, out, calls, crashes, boot, log, data>>

\* if (!tables.emplace(table_name, table).second) throw TABLE_ALREADY_EXISTS
CreateEmplace(t) ==
    /\ pc[t] = "create_emplace"
    /\ Unlock(t)
    /\ LET db == arg[t].db
       IN  IF arg[t].name \in DOMAIN tables[db]
           THEN /\ loc' = [loc EXCEPT ![t].exc = "TABLE_ALREADY_EXISTS"]
                /\ Goto(t, "create_catch")
                /\ UNCHANGED tables
           ELSE /\ tables' = [tables EXCEPT ![db] = Insert(@, arg[t].name, arg[t].table)]
                /\ Goto(t, "create_rename")
                /\ UNCHANGED loc
    /\ UNCHANGED <<files, shut, arg, out, calls, crashes, boot, log, data>>

\* Poco::File(table_metadata_tmp_path).renameTo(table_metadata_path)
CreateRename(t) ==
    /\ pc[t] = "create_rename"
    /\ LET db == arg[t].db
           tmp == MetadataTmpPath(arg[t].name)
       IN  IF Exists(files[db], tmp)
           THEN /\ files' = [files EXCEPT ![db] =
                        WriteFile(RemoveFile(@, tmp), MetadataPath(arg[t].name), @[tmp])]
                /\ Return(t, NoStorage)
                /\ UNCHANGED loc
           ELSE /\ loc' = [loc EXCEPT ![t].exc = "FILE_NOT_FOUND"]
                /\ Goto(t, "create_catch")
                /\ UNCHANGED <<files, out>>
    /\ UNCHANGED <<tables, mutex, shut, arg, calls, crashes, boot, log, data>>

\* rename(2) fails (an I/O error, no space for the directory entry, ...).
CreateRenameFails(t) ==
    /\ pc[t] = "create_rename"
    /\ loc' = [loc EXCEPT ![t].exc = "FILE_ERROR"]
    /\ Goto(t, "create_catch")
    /\ UNCHANGED <<tables, mutex, files, shut, arg, out, calls, crashes, boot, log, data>>

\* catch (...) { Poco::File(table_metadata_tmp_path).remove(); throw; }
CreateCatch(t) ==
    /\ pc[t] = "create_catch"
    /\ LET db == arg[t].db
           tmp == MetadataTmpPath(arg[t].name)
       IN  IF Exists(files[db], tmp)
           THEN /\ files' = [files EXCEPT ![db] = RemoveFile(@, tmp)]
                /\ Throw(t, loc[t].exc)
           ELSE /\ Throw(t, "FILE_NOT_FOUND")
                /\ UNCHANGED files
    /\ UNCHANGED <<tables, mutex, shut, arg, loc, calls, crashes, boot, log, data>>

(***************************************************************************)
(* attachTable, detachTable                                                *)
(***************************************************************************)
CallAttach(t, db, name) ==
    Call(t, [NoArg EXCEPT !.op = "attachTable", !.db = db, !.name = name,
                          !.table = Storage(t, name)],
         "attach_lock")

AttachLock(t) == Lock(t, "attach_lock", "attach_emplace")

\* if (!tables.emplace(table_name, table).second) throw TABLE_ALREADY_EXISTS
AttachEmplace(t) ==
    /\ pc[t] = "attach_emplace"
    /\ Unlock(t)
    /\ IF arg[t].name \in DOMAIN tables[arg[t].db]
       THEN Throw(t, "TABLE_ALREADY_EXISTS") /\ UNCHANGED tables
       ELSE /\ tables' = [tables EXCEPT ![arg[t].db] =
                              Insert(@, arg[t].name, arg[t].table)]
            /\ Return(t, NoStorage)
    /\ UNCHANGED <<files, shut, arg, loc, calls, crashes, boot, log, data>>

CallDetach(t, db, name) ==
    Call(t, [NoArg EXCEPT !.op = "detachTable", !.db = db, !.name = name],
         "detach_lock")

DetachLock(t) == Lock(t, "detach_lock", "detach_erase")

\* The error code detachTable throws when the table is not in the map.
DetachMissingCode == "TABLE_ALREADY_EXISTS"

\* it = tables.find(table_name); throw if absent; res = it->second; tables.erase(it)
DetachErase(t) ==
    /\ pc[t] = "detach_erase"
    /\ Unlock(t)
    /\ IF arg[t].name \notin DOMAIN tables[arg[t].db]
       THEN Throw(t, DetachMissingCode) /\ UNCHANGED tables
       ELSE /\ tables' = [tables EXCEPT ![arg[t].db] = Erase(@, arg[t].name)]
            /\ Return(t, tables[arg[t].db][arg[t].name])
    /\ UNCHANGED <<files, shut, arg, loc, calls, crashes, boot, log, data>>

(***************************************************************************)
(* removeTable                                                             *)
(***************************************************************************)
CallRemove(t, db, name) ==
    Call(t, [NoArg EXCEPT !.op = "removeTable", !.db = db, !.name = name],
         "remove_lock")

RemoveLock(t) == Lock(t, "remove_lock", "remove_detach")

\* StoragePtr res = detachTable(table_name);
RemoveDetach(t) ==
    /\ pc[t] = "remove_detach"
    /\ Unlock(t)
    /\ IF arg[t].name \notin DOMAIN tables[arg[t].db]
       THEN Throw(t, DetachMissingCode) /\ UNCHANGED <<tables, loc>>
       ELSE /\ tables' = [tables EXCEPT ![arg[t].db] = Erase(@, arg[t].name)]
            /\ loc' = [loc EXCEPT ![t].res = tables[arg[t].db][arg[t].name]]
            /\ Goto(t, "remove_file")
            /\ out' = out
    /\ UNCHANGED <<files, shut, arg, calls, crashes, boot, log, data>>

\* Poco::File(table_metadata_path).remove(): unlink fails on a missing file.
RemoveFileStep(t) ==
    /\ pc[t] = "remove_file"
    /\ LET db == arg[t].db
           path == MetadataPath(arg[t].name)
       IN  IF Exists(files[db], path)
           THEN /\ files' = [files EXCEPT ![db] = RemoveFile(@, path)]
                /\ Return(t, loc[t].res)
                /\ UNCHANGED loc
           ELSE /\ loc' = [loc EXCEPT ![t].exc = "FILE_NOT_FOUND"]
                /\ Goto(t, "remove_catch_lock")
                /\ UNCHANGED <<files, out>>
    /\ UNCHANGED <<tables, mutex, shut, arg, calls, crashes, boot, log, data>>

\* unlink(2) fails for another reason (permissions, an I/O error).
RemoveFileFails(t) ==
    /\ pc[t] = "remove_file"
    /\ Exists(files[arg[t].db], MetadataPath(arg[t].name))
    /\ loc' = [loc EXCEPT ![t].exc = "FILE_ERROR"]
    /\ Goto(t, "remove_catch_lock")
    /\ UNCHANGED <<tables, mutex, files, shut, arg, out, calls, crashes, boot, log, data>>

RemoveCatchLock(t) == Lock(t, "remove_catch_lock", "remove_catch")

\* removeTable whose catch block rethrows without attaching the table again.
ReattachNothing(map, table_name, res) == map

\* The map after catch (...) { attachTable(table_name, res); throw; }
Reattach(map, table_name, res) == Insert(map, table_name, res)

\* catch (...) { attachTable(table_name, res); throw; }
RemoveCatch(t) ==
    /\ pc[t] = "remove_catch"
    /\ Unlock(t)
    /\ IF arg[t].name \in DOMAIN tables[arg[t].db]
       THEN Throw(t, "TABLE_ALREADY_EXISTS") /\ UNCHANGED tables
       ELSE /\ tables' = [tables EXCEPT ![arg[t].db] =
                              Reattach(@, arg[t].name, loc[t].res)]
            /\ Throw(t, loc[t].exc)
    /\ UNCHANGED <<files, shut, arg, loc, calls, crashes, boot, log, data>>

(***************************************************************************)
(* getIterator and the caller's loop over the iterator                     *)
(***************************************************************************)
CallIterate(t, db) ==
    Call(t, [NoArg EXCEPT !.op = "getIterator", !.db = db], "iterate_lock")

IterateLock(t) == Lock(t, "iterate_lock", "iterate_copy")

\* The copy of the std::map, in key order, as pairs <<name, table>>.
Snapshot(map) ==
    LET names == SortStrings(DOMAIN map)
    IN  [i \in 1..Len(names) |-> <<names[i], map[names[i]]>>]

\* The values the member `it` may hold once the constructor
\* DatabaseOrdinaryIterator(Tables & tables_) : tables(tables_) {} has run:
\* the member is not initialised, so it is any position of the copy, its end
\* (Len + 1), or no position of the copy at all (0).
IteratorStart(snapshot) == 0..(Len(snapshot) + 1)

\* return std::make_unique<DatabaseOrdinaryIterator>(tables);
IterateCopy(t) ==
    /\ pc[t] = "iterate_copy"
    /\ Unlock(t)
    /\ \E start \in IteratorStart(Snapshot(tables[arg[t].db])) :
          loc' = [loc EXCEPT ![t].snapshot = Snapshot(tables[arg[t].db]),
                             ![t].it = start]
    /\ Goto(t, "iterate_loop")
    /\ UNCHANGED <<tables, files, shut, arg, out, calls, crashes, boot, log, data>>

\* for (; it->isValid(); it->next()) use(it->name(), it->table());
IterateStep(t) ==
    /\ pc[t] = "iterate_loop"
    /\ LET snapshot == loc[t].snapshot
           it == loc[t].it
       IN  IF it = Len(snapshot) + 1
           THEN Return(t, NoStorage) /\ UNCHANGED loc
           ELSE IF it = 0
           THEN Throw(t, "UNDEFINED_BEHAVIOUR") /\ UNCHANGED loc
           ELSE /\ loc' = [loc EXCEPT ![t].seen = Append(@, snapshot[it]),
                                      ![t].it = it + 1]
                /\ UNCHANGED <<pc, out>>
    /\ UNCHANGED <<tables, mutex, files, shut, arg, calls, crashes, boot, log, data>>

(***************************************************************************)
(* getCreateQuery, shutdown                                                *)
(***************************************************************************)
CallGetCreateQuery(t, db, name) ==
    Call(t, [NoArg EXCEPT !.op = "getCreateQuery", !.db = db, !.name = name],
         "get_create_query")

\* getCreateQueryImpl(path, table_name), then attach = false, database = name.
GetCreateQuery(t) ==
    /\ pc[t] = "get_create_query"
    /\ LET db == arg[t].db
           path == MetadataPath(arg[t].name)
       IN  IF ~Exists(files[db], path)
           THEN Throw(t, "CANNOT_OPEN_FILE") /\ UNCHANGED loc
           ELSE IF ~Parses(files[db][path])
           THEN Throw(t, "SYNTAX_ERROR") /\ UNCHANGED loc
           ELSE /\ loc' = [loc EXCEPT ![t].ast =
                              [parseQuery(files[db][path]) EXCEPT
                                   !.attach = FALSE, !.database = db]]
                /\ Return(t, NoStorage)
    /\ UNCHANGED <<tables, mutex, files, shut, arg, calls, crashes, boot, log, data>>

CallShutdown(t, db) ==
    Call(t, [NoArg EXCEPT !.op = "shutdown", !.db = db], "shutdown_lock")

ShutdownLock(t) == Lock(t, "shutdown_lock", "shutdown_clear")

\* for (auto & table : tables) table.second->shutdown(); tables.clear();
ShutdownClear(t) ==
    /\ pc[t] = "shutdown_clear"
    /\ Unlock(t)
    /\ shut' = shut \cup {tables[arg[t].db][n] : n \in DOMAIN tables[arg[t].db]}
    /\ tables' = [tables EXCEPT ![arg[t].db] = NoTables]
    /\ Return(t, NoStorage)
    /\ UNCHANGED <<files, arg, loc, calls, crashes, boot, log, data>>

(***************************************************************************)
(* renameTable.  It calls createTable on the target database and then      *)
(* removeTable on its own: for the time of each call arg[t] holds that     *)
(* call's arguments and loc[t].caller the table renameTable was called     *)
(* for in its own database.                                                *)
(***************************************************************************)
\* A database that is not a DatabaseOrdinary.
Foreign == "foreign"

CallRename(t, db, name, to_database, to_table_name) ==
    Call(t, [NoArg EXCEPT !.op = "renameTable", !.db = db, !.name = name,
                          !.to_database = to_database,
                          !.to_table_name = to_table_name],
         "rename_cast")

\* typeid_cast<DatabaseOrdinary *>(&to_database); if (!to_database_concrete) throw
RenameCast(t) ==
    /\ pc[t] = "rename_cast"
    /\ IF arg[t].to_database \notin Databases
       THEN Throw(t, "NOT_IMPLEMENTED")
       ELSE Goto(t, "rename_lookup_lock") /\ out' = out
    /\ UNCHANGED <<tables, mutex, files, shut, arg, loc, calls, crashes, boot, log, data>>

\* tryGetTable: the lock.
RenameLookupLock(t) == Lock(t, "rename_lookup_lock", "rename_lookup")

\* The error code renameTable throws when the table is not in the map.
RenameMissingCode == "TABLE_ALREADY_EXISTS"

\* StoragePtr table = tryGetTable(table_name); if (!table) throw
RenameLookup(t) ==
    /\ pc[t] = "rename_lookup"
    /\ Unlock(t)
    /\ IF arg[t].name \notin DOMAIN tables[arg[t].db]
       THEN Throw(t, RenameMissingCode) /\ UNCHANGED arg
       ELSE /\ arg' = [arg EXCEPT ![t].table = tables[arg[t].db][arg[t].name]]
            /\ Goto(t, "rename_hook")
            /\ out' = out
    /\ UNCHANGED <<tables, files, shut, loc, calls, crashes, boot, log, data>>

\* Where the tables' data are once table->rename(new_path, new_database,
\* new_table_name) has moved those of table.
Relocate(d, table, to_database, to_table_name) ==
    {x \in d : x[1] # table} \cup {<<table, to_database, to_table_name>>}

\* table->rename(path + "data/" + ..., to_database_concrete->name, to_table_name)
RenameHook(t) ==
    /\ pc[t] = "rename_hook"
    /\ data' = Relocate(data, arg[t].table, arg[t].to_database, arg[t].to_table_name)
    /\ Goto(t, "rename_read")
    /\ UNCHANGED <<tables, mutex, files, shut, arg, loc, out, calls, crashes, boot, log>>

\* The table does not support renaming, or moving its data fails: rename
\* throws, and the exception leaves renameTable.
RenameHookFails(t) ==
    /\ pc[t] = "rename_hook"
    /\ Throw(t, "STORAGE_RENAME_FAILED")
    /\ UNCHANGED <<tables, mutex, files, shut, arg, loc, calls, crashes, boot, log, data>>

\* ast = getCreateQueryImpl(path, table_name); ast_create_query.table =
\* to_table_name; to_database_concrete->createTable(to_table_name, table,
\* ast, table->getName()), up to the entry of createTable.
RenameRead(t) ==
    /\ pc[t] = "rename_read"
    /\ LET db == arg[t].db
           path == MetadataPath(arg[t].name)
       IN  IF ~Exists(files[db], path)
           THEN Throw(t, "CANNOT_OPEN_FILE") /\ UNCHANGED <<arg, loc>>
           ELSE IF ~Parses(files[db][path])
           THEN Throw(t, "SYNTAX_ERROR") /\ UNCHANGED <<arg, loc>>
           ELSE LET ast == [parseQuery(files[db][path]) EXCEPT
                                !.table = arg[t].to_table_name]
                IN  /\ loc' = [loc EXCEPT ![t].caller = <<db, arg[t].name>>,
                                          ![t].ast = ast]
                    /\ arg' = [arg EXCEPT ![t].op = "createTable",
                                          ![t].db = arg[t].to_database,
                                          ![t].name = arg[t].to_table_name,
                                          ![t].query = ast,
                                          ![t].engine = ast.storage]
                    /\ Goto(t, "create_lock1")
                    /\ out' = out
    /\ UNCHANGED <<tables, mutex, files, shut, calls, crashes, boot, log, data>>

\* createTable has returned: removeTable(table_name).  removeTable has
\* returned: the end of renameTable.
RenameReturned(t) ==
    /\ pc[t] = "rename_returned"
    /\ IF arg[t].op = "createTable"
       THEN /\ arg' = [arg EXCEPT ![t].op = "removeTable",
                                  ![t].db = loc[t].caller[1],
                                  ![t].name = loc[t].caller[2]]
            /\ Goto(t, "remove_lock")
            /\ UNCHANGED <<loc, out>>
       ELSE /\ arg' = [arg EXCEPT ![t].op = "renameTable",
                                  ![t].db = loc[t].caller[1],
                                  ![t].name = loc[t].caller[2]]
            /\ loc' = [loc EXCEPT ![t].caller = <<>>]
            /\ out' = [out EXCEPT ![t].table = NoStorage]
            /\ Goto(t, "idle")
    /\ UNCHANGED <<tables, mutex, files, shut, calls, crashes, boot, log, data>>

\* The exception of createTable or of removeTable leaves renameTable.
RenameThrown(t) ==
    /\ pc[t] = "rename_thrown"
    /\ arg' = [arg EXCEPT ![t].op = "renameTable",
                          ![t].db = loc[t].caller[1],
                          ![t].name = loc[t].caller[2]]
    /\ loc' = [loc EXCEPT ![t].caller = <<>>]
    /\ Goto(t, "idle")
    /\ UNCHANGED <<tables, mutex, files, shut, out, calls, crashes, boot, log, data>>

(***************************************************************************)
(* The constructor: loading the metadata directory.                        *)
(*                                                                         *)
(* boot.phase is "enumerate" (the loop over the directory), "load_first"   *)
(* (the .inner. tables), "schedule" (the loop creating the tasks), "wait"  *)
(* (thread_pool->wait()), "join" (the loop over the futures), "done" (the  *)
(* object is constructed) or "failed" (the constructor threw).  Loader 0   *)
(* is the constructing thread loading tables_to_load_first; loader u >= 1  *)
(* is tasks[u - 1].                                                        *)
(***************************************************************************)
NoExc == [file |-> <<>>, code |-> ""]

NewLoader == [exc |-> NoExc, state |-> "new", pos |-> 0, stage |-> "read"]

Constructed(db) ==
    [i |-> 0, db |-> db, phase |-> "done", pool |-> FALSE, first |-> <<>>,
     normal |-> <<>>, loaders |-> [u \in {0} |-> NewLoader],
     error |-> NoExc]

\* The mutex holder's name for a thread of the constructor.
LoaderId(u) == 0 - (u + 1)

\* A loop over the directory that leaves the temporary files where they are.
ClassifyKeepsTmp(name) ==
    IF Head(name) = "." THEN "skip"
    ELSE IF endsWith(name, SQL_BAK) THEN "skip"
    ELSE IF endsWith(name, SQL_TMP) THEN "skip"
    ELSE IF endsWith(name, SQL) THEN "load"
    ELSE "throw"

\* A loop over the directory that passes over the entries it does not know.
ClassifySkipsUnknown(name) ==
    IF Head(name) = "." THEN "skip"
    ELSE IF endsWith(name, SQL_BAK) THEN "skip"
    ELSE IF endsWith(name, SQL_TMP) THEN "remove"
    ELSE IF endsWith(name, SQL) THEN "load"
    ELSE "skip"

\* What the loop over the directory does with an entry.
Classify(name) ==
    IF Head(name) = "." THEN "skip"
    ELSE IF endsWith(name, SQL_BAK) THEN "skip"
    ELSE IF endsWith(name, SQL_TMP) THEN "remove"
    ELSE IF endsWith(name, SQL) THEN "load"
    ELSE "throw"

EntriesOf(dir, class) == {f \in DOMAIN dir : Classify(f) = class}

RECURSIVE RemoveFiles(_, _)
RemoveFiles(dir, S) ==
    IF S = {} THEN dir
    ELSE LET f == CHOOSE x \in S : TRUE
         IN  RemoveFiles(RemoveFile(dir, f), S \ {f})

\* LOG_INFO(log, "Removing file " << dir_it->path()), for the files of S in
\* the order the directory iterator gives them, which is any.
Removals(S) ==
    { [i \in 1..Cardinality(S) |-> <<"remove", q[i]>>] :
        q \in {r \in [1..Cardinality(S) -> S] :
                  \A i, j \in 1..Cardinality(S) : r[i] = r[j] => i = j} }

\* std::sort(file_names.begin(), file_names.end())
SortedFileNames(dir) == SortStrings(EntriesOf(dir, "load"))

\* A test for the table name as it is before the escaping.
IsInnerUnescaped(file_name) ==
    startsWith(file_name, <<".", "i", "n", "n", "e", "r", ".">>)

IsInner(file_name) == startsWith(file_name, INNER_PREFIX)

\* tables_to_load_first and tables: the sorted names, split by the prefix.
TablesToLoadFirst(file_names) == SelectSeq(file_names, IsInner)
IsNotInner(file_name) == ~IsInner(file_name)
TablesToLoad(file_names) == SelectSeq(file_names, IsNotInner)

\* A number of bunches that is rounded down.
NumBunchesFloor(total_tables, bunch_size) == total_tables \div bunch_size

\* num_bunches = (total_tables + bunch_size - 1) / bunch_size
NumBunches(total_tables, bunch_size) ==
    (total_tables + bunch_size - 1) \div bunch_size

\* [begin, end) of task i (from 0), as the names it loads.
Bunch(list, i, bunch_size) ==
    LET num_bunches == NumBunches(Len(list), bunch_size)
        begin == i * bunch_size
        end == IF i + 1 = num_bunches THEN Len(list) ELSE (i + 1) * bunch_size
    IN  SubSeq(list, begin + 1, end)

\* The names loader u goes through.
LoaderList(u) ==
    IF u = 0 THEN boot.first ELSE Bunch(boot.normal, u - 1, BunchSize)

NumTasks == NumBunches(Len(boot.normal), BunchSize)

\* The loop over the directory, whole.  The order of a directory iterator is
\* not specified: when an entry makes the loop throw, any set of the other
\* entries may have been visited before it.
Enumerate ==
    /\ boot.phase = "enumerate"
    /\ LET db == boot.db
           dir == files[db]
       IN  IF EntriesOf(dir, "throw") = {}
           THEN LET file_names == SortedFileNames(dir)
                    first == TablesToLoadFirst(file_names)
                    normal == TablesToLoad(file_names)
                    n == NumBunches(Len(normal), BunchSize)
                IN  /\ files' = [files EXCEPT ![db] =
                                    RemoveFiles(dir, EntriesOf(dir, "remove"))]
                    /\ \E removals \in Removals(EntriesOf(dir, "remove")) :
                          log' = log \o removals
                    /\ boot' = [boot EXCEPT
                           !.first = first, !.normal = normal, !.i = 0,
                           !.loaders = [u \in 0..n |->
                               IF u = 0 /\ first # <<>>
                               THEN [NewLoader EXCEPT !.state = "ready"]
                               ELSE IF u = 0
                               THEN [NewLoader EXCEPT !.state = "done"]
                               ELSE NewLoader],
                           !.phase = IF first = <<>> THEN "schedule"
                                     ELSE "load_first"]
           ELSE \E bad \in EntriesOf(dir, "throw") :
                \E visited \in SUBSET EntriesOf(dir, "remove") :
                    /\ files' = [files EXCEPT ![db] = RemoveFiles(dir, visited)]
                    /\ \E removals \in Removals(visited) :
                          log' = log \o removals
                    /\ boot' = [boot EXCEPT !.phase = "failed",
                           !.error = [file |-> bad, code |-> "INCORRECT_FILE_NAME"]]
    /\ UNCHANGED <<tables, mutex, shut, pc, arg, loc, out, calls, crashes, data>>

\* Storage engines InterpreterCreateQuery can build.
KnownStorages == {"Log", "View", "MaterializedView"}

\* Whether executeCreateQuery gets as far as attaching the table.
Constructible(text) == Parses(text) /\ parseQuery(text).storage \in KnownStorages

\* A loader is through with a table: the next one, or the end of its list.
Advance(u, l) ==
    [l EXCEPT !.pos = @ + 1, !.stage = "read",
              !.state = IF l.pos + 1 = Len(LoaderList(u)) THEN "done" ELSE @]

\* A loadTable whose exception leaves the constructor at once, whoever
\* runs it.
FailAborts(u, file) ==
    LET exc == [file |-> file, code |-> "CANNOT_CREATE_TABLE_FROM_METADATA"]
    IN  boot' = [boot EXCEPT
            !.loaders[u] = [@ EXCEPT !.state = "done", !.exc = exc],
            !.phase = "failed",
            !.error = exc]

\* loadTable throws: a task keeps the exception in its future, the
\* constructing thread (loader 0) lets it leave the constructor.
Fail(u, file) ==
    LET exc == [file |-> file, code |-> "CANNOT_CREATE_TABLE_FROM_METADATA"]
    IN  boot' = [boot EXCEPT
            !.loaders[u] = [@ EXCEPT !.state = "done", !.exc = exc],
            !.phase = IF u = 0 THEN "failed" ELSE @,
            !.error = IF u = 0 THEN exc ELSE @]

\* After tables_to_load_first the constructor goes on to the tasks.
AfterStep(u, l) ==
    boot' = [boot EXCEPT !.loaders[u] = Advance(u, l),
                         !.phase = IF u = 0 /\ Advance(u, l).state = "done"
                                   THEN "schedule" ELSE @]

Running(u) ==
    /\ u \in DOMAIN boot.loaders
    /\ boot.phase \in {"load_first", "schedule", "wait"}
    /\ boot.loaders[u].state = "ready"

\* A loadTable that hands an empty file to the parser as it does any other.
LoadReadParsesEmpty(u) ==
    /\ Running(u)
    /\ boot.loaders[u].stage = "read"
    /\ LET db == boot.db
           l == boot.loaders[u]
           file == LoaderList(u)[l.pos + 1]
           s == files[db][file]
       IN  IF ~Constructible(s)
           THEN /\ log' = log \o << <<"start", file>>, <<"throw", file>> >>
                /\ Fail(u, file)
           ELSE /\ log' = Append(log, <<"start", file>>)
                /\ boot' = [boot EXCEPT !.loaders[u].stage = "lock"]
    /\ UNCHANGED <<tables, mutex, files, shut, pc, arg, loc, out, calls, crashes, data>>

\* loadTable up to the attach: read the file; remove it if it is empty;
\* parse the statement and build the table.
LoadRead(u) ==
    /\ Running(u)
    /\ boot.loaders[u].stage = "read"
    /\ LET db == boot.db
           l == boot.loaders[u]
           file == LoaderList(u)[l.pos + 1]
           s == files[db][file]
       IN  IF s = <<>>
           THEN /\ files' = [files EXCEPT ![db] = RemoveFile(@, file)]
                /\ log' = log \o << <<"start", file>>, <<"finish", file>> >>
                /\ AfterStep(u, l)
           ELSE IF ~Constructible(s)
           THEN /\ log' = log \o << <<"start", file>>, <<"throw", file>> >>
                /\ Fail(u, file)
                /\ UNCHANGED files
           ELSE /\ log' = Append(log, <<"start", file>>)
                /\ boot' = [boot EXCEPT !.loaders[u].stage = "lock"]
                /\ UNCHANGED files
    /\ UNCHANGED <<tables, mutex, shut, pc, arg, loc, out, calls, crashes, data>>

\* attachTable, called by InterpreterCreateQuery: the lock.
LoadLock(u) ==
    /\ Running(u)
    /\ boot.loaders[u].stage = "lock"
    /\ mutex[boot.db] = 0
    /\ mutex' = [mutex EXCEPT ![boot.db] = LoaderId(u)]
    /\ boot' = [boot EXCEPT !.loaders[u].stage = "attach"]
    /\ UNCHANGED <<tables, files, shut, pc, arg, loc, out, calls, crashes, log, data>>

\* attachTable: the emplace, and the end of loadTable.
LoadAttach(u) ==
    /\ Running(u)
    /\ boot.loaders[u].stage = "attach"
    /\ mutex' = [mutex EXCEPT ![boot.db] = 0]
    /\ LET db == boot.db
           l == boot.loaders[u]
           file == LoaderList(u)[l.pos + 1]
           table_name == parseQuery(files[db][file]).table
       IN  IF table_name \in DOMAIN tables[db]
           THEN /\ log' = Append(log, <<"throw", file>>)
                /\ Fail(u, file)
                /\ UNCHANGED tables
           ELSE /\ tables' = [tables EXCEPT ![db] =
                                  Insert(@, table_name, Storage(0, table_name))]
                /\ log' = Append(log, <<"finish", file>>)
                /\ AfterStep(u, l)
    /\ UNCHANGED <<files, shut, pc, arg, loc, out, calls, crashes, data>>

\* Whether task u (from 1) has returned.
TaskDone(u) == boot.loaders[u].state = "done"

\* tasks[i] = ...; thread_pool ? thread_pool->schedule(...) : tasks[i]()
\* Without a pool the call returns when the task has run.
Schedule ==
    /\ boot.phase = "schedule"
    /\ boot.i < NumTasks
    /\ boot.pool \/ boot.i = 0 \/ TaskDone(boot.i)
    /\ boot' = [boot EXCEPT !.i = @ + 1, !.loaders[boot.i + 1].state = "ready"]
    /\ UNCHANGED <<tables, mutex, files, shut, pc, arg, loc, out, calls, crashes, log, data>>

\* The end of the loop; if (thread_pool) thread_pool->wait();
ScheduleEnd ==
    /\ boot.phase = "schedule"
    /\ boot.i = NumTasks
    /\ boot.pool \/ boot.i = 0 \/ TaskDone(boot.i)
    /\ boot' = [boot EXCEPT !.phase = IF boot.pool THEN "wait" ELSE "join"]
    /\ UNCHANGED <<tables, mutex, files, shut, pc, arg, loc, out, calls, crashes, log, data>>

Wait ==
    /\ boot.phase = "wait"
    /\ \A u \in 1..NumTasks : TaskDone(u)
    /\ boot' = [boot EXCEPT !.phase = "join"]
    /\ UNCHANGED <<tables, mutex, files, shut, pc, arg, loc, out, calls, crashes, log, data>>

\* The task whose exception the loop over the futures rethrows, 0 if none.
FirstFailed(loaders, n) ==
    IF \E u \in 1..n : loaders[u].exc # NoExc
    THEN CHOOSE u \in 1..n :
            /\ loaders[u].exc # NoExc
            /\ \A v \in 1..(u - 1) : loaders[v].exc = NoExc
    ELSE 0

\* for (auto & task : tasks) task.get_future().get();
Join ==
    /\ boot.phase = "join"
    /\ LET u == FirstFailed(boot.loaders, NumTasks)
       IN  boot' = [boot EXCEPT
               !.phase = IF u = 0 THEN "done" ELSE "failed",
               !.error = IF u = 0 THEN NoExc ELSE boot.loaders[u].exc]
    /\ UNCHANGED <<tables, mutex, files, shut, pc, arg, loc, out, calls, crashes, log, data>>

(***************************************************************************)
(* The process dies and is started again on the same directories.          *)
(***************************************************************************)
Crash ==
    /\ boot.phase = "done"
    /\ crashes < MaxCrashes
    /\ crashes' = crashes + 1
    /\ tables' = [d \in Databases |-> NoTables]
    /\ mutex' = [d \in Databases |-> 0]
    /\ shut' = {}
    /\ pc' = [t \in Threads |-> "idle"]
    /\ loc' = [t \in Threads |-> NoLoc]
    /\ out' = [t \in Threads |->
                  IF pc[t] = "idle" THEN out[t]
                  ELSE [table |-> NoStorage, status |-> "crashed", code |-> pc[t]]]
    /\ log' = <<>>
    /\ \E pool \in BOOLEAN :
          boot' = [Constructed(boot.db) EXCEPT !.phase = "enumerate", !.pool = pool]
    /\ UNCHANGED <<files, arg, calls, data>>

(***************************************************************************)
(* Names, statements and directories the specifications draw from.         *)
(***************************************************************************)
TableA == <<"a">>
TableB == <<"b">>
TableC == <<"c">>
TableD == <<"d">>
InnerA == <<".", "i", "n", "n", "e", "r", ".", "a">>
InnerB == <<".", "i", "n", "n", "e", "r", ".", "b">>

\* CREATE TABLE IF NOT EXISTS default.<name> ... ENGINE = <engine>, with a
\* SELECT clause when the engine is a view.
QueryOf(name, engine) ==
    CreateQuery(name, "default", engine,
                IF engine \in {"View", "MaterializedView"} THEN "SELECT" ELSE "",
                TRUE, FALSE, "", <<>>)

\* The metadata file of a table as the server writes it.
AttachStatement(name, engine) == Statement(QueryOf(name, engine), engine)

MetadataFile(name) == escapeForFileName(name) \o SQL

\* The state of a database object constructed on directory dir.
LoadedTables(dir) ==
    LET names == {parseQuery(dir[f]).table : f \in EntriesOf(dir, "load")}
    IN  [n \in names |-> Storage(0, n)]

LiveDirectories ==
    { NoFiles,
      WriteFile(NoFiles, MetadataFile(TableB), AttachStatement(TableB, "Log")) }

InitLive ==
    /\ \E dir \in LiveDirectories :
          /\ files = [d \in Databases |-> IF d = "default" THEN dir ELSE NoFiles]
          /\ tables = [d \in Databases |->
                          IF d = "default" THEN LoadedTables(dir) ELSE NoTables]
    /\ mutex = [d \in Databases |-> 0]
    /\ shut = {}
    /\ pc = [t \in Threads |-> "idle"]
    /\ arg = [t \in Threads |-> NoArg]
    /\ loc = [t \in Threads |-> NoLoc]
    /\ out = [t \in Threads |-> NoOut]
    /\ calls = 0
    /\ crashes = 0
    /\ boot = Constructed("default")
    /\ log = <<>>
    /\ data = {}

Names == {TableA, TableB}

\* The steps of the methods, the file system doing what it is asked.
Step(t) ==
    \/ CreateLock1(t) \/ CreateCheck(t) \/ CreateOpenTmp(t) \/ CreateWriteTmp(t)
    \/ CreateLock2(t) \/ CreateEmplace(t) \/ CreateRename(t) \/ CreateCatch(t)
    \/ AttachLock(t) \/ AttachEmplace(t)
    \/ DetachLock(t) \/ DetachErase(t)
    \/ RemoveLock(t) \/ RemoveDetach(t) \/ RemoveFileStep(t)
    \/ RemoveCatchLock(t) \/ RemoveCatch(t)
    \/ IterateLock(t) \/ IterateCopy(t) \/ IterateStep(t)
    \/ GetCreateQuery(t)
    \/ ShutdownLock(t) \/ ShutdownClear(t)

\* The steps at which the file system fails.
Fault(t) ==
    \/ CreateWriteTmpFails(t) \/ CreateRenameFails(t) \/ RemoveFileFails(t)

AnyCall(t) ==
    \/ \E n \in Names : CallCreate(t, "default", n, QueryOf(n, "Log"), "Log")
    \/ \E n \in Names : CallAttach(t, "default", n)
    \/ \E n \in Names : CallDetach(t, "default", n)
    \/ \E n \in Names : CallRemove(t, "default", n)
    \/ \E n \in Names : CallGetCreateQuery(t, "default", n)
    \/ CallIterate(t, "default")
    \/ CallShutdown(t, "default")

(***************************************************************************)
(* Spec: the threads call into the database concurrently.                  *)
(***************************************************************************)
Init == InitLive

Next == \E t \in Threads : AnyCall(t) \/ Step(t) \/ Fault(t)

Spec == Init /\ [][Next]_vars

(***************************************************************************)
(* SpecSeq: the same calls, one at a time.                                 *)
(***************************************************************************)
AllIdle == \A t \in Threads : pc[t] = "idle"

NextSeq == \E t \in Threads : (AllIdle /\ AnyCall(t)) \/ Step(t) \/ Fault(t)

SpecSeq == Init /\ [][NextSeq]_vars

(***************************************************************************)
(* SpecRename: one client creates, detaches and renames tables, within a   *)
(* database or into another one.                                           *)
(***************************************************************************)
RenameStep(t) ==
    \/ RenameCast(t) \/ RenameLookupLock(t) \/ RenameLookup(t) \/ RenameHook(t)
    \/ RenameRead(t) \/ RenameReturned(t) \/ RenameThrown(t)

NextRename ==
    \E t \in {1} :
        \/ /\ AllIdle
           /\ \/ \E n \in Names, db \in Databases :
                    CallCreate(t, db, n, QueryOf(n, "Log"), "Log")
              \/ \E n \in Names : CallDetach(t, "default", n)
              \/ \E n \in Names, to \in Databases \cup {Foreign}, m \in Names :
                    CallRename(t, "default", n, to, m)
        \/ CreateLock1(t) \/ CreateCheck(t) \/ CreateOpenTmp(t) \/ CreateWriteTmp(t)
        \/ CreateLock2(t) \/ CreateEmplace(t) \/ CreateRename(t) \/ CreateCatch(t)
        \/ DetachLock(t) \/ DetachErase(t)
        \/ RemoveLock(t) \/ RemoveDetach(t) \/ RemoveFileStep(t)
        \/ RemoveCatchLock(t) \/ RemoveCatch(t)
        \/ RenameStep(t)
        \/ Fault(t) \/ RenameHookFails(t)

SpecRename == Init /\ [][NextRename]_vars

(***************************************************************************)
(* SpecRace: every thread calls createTable once, the file system does not *)
(* fail.                                                                   *)
(***************************************************************************)
NextRace ==
    \E t \in Threads :
        \/ /\ arg[t] = NoArg
           /\ \E n \in Names : CallCreate(t, "default", n, QueryOf(n, "Log"), "Log")
        \/ CreateLock1(t) \/ CreateCheck(t) \/ CreateOpenTmp(t) \/ CreateWriteTmp(t)
        \/ CreateLock2(t) \/ CreateEmplace(t) \/ CreateRename(t) \/ CreateCatch(t)

SpecRace == Init /\ [][NextRace]_vars

(***************************************************************************)
(* SpecCreate: one client creates tables from every form of CREATE query,  *)
(* the file system may fail.                                               *)
(***************************************************************************)
\* The AS clause of a query: none, AS table, AS database.table.
AsClauses == {<<"", <<>>>>, <<"", TableB>>, <<"other", TableB>>}

Definitions ==
    {CreateQuery(n, d, e, s, i, p, as[1], as[2]) :
        n \in Names, d \in {"", "default"}, e \in KnownStorages,
        s \in {"", "SELECT"}, i \in BOOLEAN, p \in BOOLEAN, as \in AsClauses}

NextCreate ==
    \E t \in {1} :
        \/ \E q \in Definitions : CallCreate(t, "default", q.table, q, q.storage)
        \/ CreateLock1(t) \/ CreateCheck(t) \/ CreateOpenTmp(t) \/ CreateWriteTmp(t)
        \/ CreateLock2(t) \/ CreateEmplace(t) \/ CreateRename(t) \/ CreateCatch(t)
        \/ CreateWriteTmpFails(t) \/ CreateRenameFails(t)

SpecCreate == Init /\ [][NextCreate]_vars

(***************************************************************************)
(* SpecCrash: tables are created, the process dies at any point and is     *)
(* started again; the new process is asked for the definitions.            *)
(***************************************************************************)
Engines == {"Log", "View"}

Load ==
    \/ Enumerate
    \/ \E u \in DOMAIN boot.loaders : LoadRead(u) \/ LoadLock(u) \/ LoadAttach(u)
    \/ Schedule \/ ScheduleEnd \/ Wait \/ Join

NextCrash ==
    \/ \E t \in Threads :
        \/ /\ crashes = 0
           /\ \E n \in Names, e \in Engines :
                 CallCreate(t, "default", n, QueryOf(n, e), e)
        \/ /\ crashes > 0
           /\ \E n \in Names : CallGetCreateQuery(t, "default", n)
        \/ CreateLock1(t) \/ CreateCheck(t) \/ CreateOpenTmp(t) \/ CreateWriteTmp(t)
        \/ CreateLock2(t) \/ CreateEmplace(t) \/ CreateRename(t) \/ CreateCatch(t)
        \/ GetCreateQuery(t)
    \/ Crash
    \/ Load

SpecCrash == Init /\ [][NextCrash]_vars

(***************************************************************************)
(* SpecLocks: one client calls the methods that take the mutex and touch   *)
(* the directory; the process may die and load the directory again.        *)
(***************************************************************************)
NextLocks ==
    \/ \E t \in {1} :
          \/ /\ AllIdle
             /\ \/ \E n \in Names :
                      CallCreate(t, "default", n, QueryOf(n, "Log"), "Log")
                \/ \E n \in Names : CallAttach(t, "default", n)
                \/ \E n \in Names : CallDetach(t, "default", n)
                \/ \E n \in Names : CallRemove(t, "default", n)
                \/ \E n \in Names : CallGetCreateQuery(t, "default", n)
                \/ \E n \in Names : CallRename(t, "default", n, "other", n)
          \/ CreateLock1(t) \/ CreateCheck(t) \/ CreateOpenTmp(t) \/ CreateWriteTmp(t)
          \/ CreateLock2(t) \/ CreateEmplace(t) \/ CreateRename(t) \/ CreateCatch(t)
          \/ AttachLock(t) \/ AttachEmplace(t)
          \/ DetachLock(t) \/ DetachErase(t)
          \/ RemoveLock(t) \/ RemoveDetach(t) \/ RemoveFileStep(t)
          \/ RemoveCatchLock(t) \/ RemoveCatch(t)
          \/ GetCreateQuery(t)
          \/ RenameStep(t)
          \/ Fault(t) \/ RenameHookFails(t)
    \/ Crash
    \/ Load

SpecLocks == Init /\ [][NextLocks]_vars

(***************************************************************************)
(* SpecBoot: the constructor runs on a directory, with a thread pool or    *)
(* without one.                                                            *)
(***************************************************************************)
Absent == <<"absent">>
UnknownEngine(name) == Statement(QueryOf(name, "Unknown"), "Unknown")
Attach(name) == AttachStatement(name, "Log")

TableE == <<"e">>

\* The metadata files a directory may hold, each with the contents it may have.
BootTableFiles ==
    { MetadataFile(InnerA), MetadataFile(InnerB), MetadataFile(TableA),
      MetadataFile(TableB), MetadataFile(TableC), MetadataFile(TableD) }

BootContents ==
    (MetadataFile(InnerA) :> {Absent, Attach(InnerA), Garbage}) @@
    (MetadataFile(InnerB) :> {Absent, Attach(InnerB)}) @@
    (MetadataFile(TableA) :> {Absent, Attach(TableA), <<>>, Garbage}) @@
    (MetadataFile(TableB) :> {Absent, Attach(TableB)}) @@
    (MetadataFile(TableC) :> {Absent, Attach(TableC), UnknownEngine(TableC)}) @@
    (MetadataFile(TableD) :> {Absent, Attach(TableD)})

\* What else it may hold: temporary files, backups, dot entries, strangers.
BootExtras ==
    { NoFiles,
      (MetadataTmpPath(TableA) :> <<>>) @@ (MetadataTmpPath(TableE) :> Attach(TableE)),
      ((escapeForFileName(TableA) \o SQL_BAK) :> Attach(TableA)) @@
          (<<".", "s", "v", "n">> :> <<>>),
      (<<".", "x">> \o SQL_TMP) :> <<>>,
      (<<"z", ".", "t", "x", "t">> :> <<>>) @@ (MetadataTmpPath(TableA) :> <<>>) }

BootDirectories ==
    { LET present == {x \in BootTableFiles : f[x] # Absent}
      IN  [x \in present |-> f[x]] @@ extra :
        f \in {g \in [BootTableFiles -> UNION {BootContents[x] : x \in BootTableFiles}] :
                  \A x \in BootTableFiles : g[x] \in BootContents[x]},
        extra \in BootExtras }

InitBoot ==
    /\ \E dir \in BootDirectories :
          files = [d \in Databases |-> IF d = "default" THEN dir ELSE NoFiles]
    /\ tables = [d \in Databases |-> NoTables]
    /\ mutex = [d \in Databases |-> 0]
    /\ shut = {}
    /\ pc = [t \in Threads |-> "idle"]
    /\ arg = [t \in Threads |-> NoArg]
    /\ loc = [t \in Threads |-> NoLoc]
    /\ out = [t \in Threads |-> NoOut]
    /\ calls = 0
    /\ crashes = 0
    /\ \E pool \in BOOLEAN :
          boot = [Constructed("default") EXCEPT !.phase = "enumerate", !.pool = pool]
    /\ log = <<>>
    /\ data = {}

SpecBoot == InitBoot /\ [][Load]_vars

(***************************************************************************)
(* The properties.                                                         *)
(***************************************************************************)
\* The threads that have called createTable for table n of database default.
Creators(n) ==
    {t \in Threads : arg[t].op = "createTable" /\ arg[t].db = "default"
                     /\ arg[t].name = n}

Succeeded(t) == pc[t] = "idle" /\ out[t].status = "ok"
Failed(t) == pc[t] = "idle" /\ out[t].status = "error"
FailedWith(t, codes) == Failed(t) /\ out[t].code \in codes

\* In SpecRace nothing leaves the map, and the tables the constructor loaded
\* are the ones built by 0: the name was in the map from the start iff it is
\* bound to such a table.
InitiallyAbsent(n) ==
    ~(n \in DOMAIN tables["default"] /\ tables["default"][n].by = 0)

\* Two or more createTable calls for n, all returned, n absent before them.
RaceOver(n) ==
    /\ Cardinality(Creators(n)) >= 2
    /\ \A t \in Creators(n) : pc[t] = "idle"
    /\ InitiallyAbsent(n)

ExactlyOneCreated(n, codes) ==
    /\ Cardinality({t \in Creators(n) : Succeeded(t)}) = 1
    /\ \A t \in Creators(n) : Succeeded(t) \/ FailedWith(t, codes)
    /\ n \in DOMAIN tables["default"]

\* C1, as stated: of N >= 2 concurrent createTable calls for one name that
\* was absent, exactly one succeeds, every other one fails with
\* TABLE_ALREADY_EXISTS, and the map holds the name afterwards.
C1_CreateExclusivityAsStated ==
    \A n \in Names : RaceOver(n) => ExactlyOneCreated(n, {"TABLE_ALREADY_EXISTS"})

\* C1, amended: of N >= 2 concurrent createTable calls for one name that was
\* absent, with a file system that does not fail otherwise, exactly one
\* succeeds, every other one fails with TABLE_ALREADY_EXISTS or with the
\* error of the exclusive creation of the temporary file
\* (CANNOT_OPEN_FILE), and the map holds the name afterwards.
C1_CreateExclusivity ==
    \A n \in Names :
        RaceOver(n) => ExactlyOneCreated(n, {"TABLE_ALREADY_EXISTS", "CANNOT_OPEN_FILE"})

\* C1 witness: a race for one name is over, one call having lost it at the
\* temporary file and one at the emplace or the check.
C1_Witness ==
    \E n \in Names :
        /\ RaceOver(n)
        /\ \E t \in Creators(n) : Succeeded(t)
        /\ \E t \in Creators(n) : FailedWith(t, {"CANNOT_OPEN_FILE"})

\* Thread t returns from a call of method op without an error, in this step.
Returns(t, op) ==
    /\ arg[t].op = op
    /\ pc[t] # "idle"
    /\ pc'[t] = "idle"
    /\ out'[t].status = "ok"

\* C2: when createTable(name) returns without error the directory holds the
\* published file <escaped name>.sql and no <escaped name>.sql.tmp, and the
\* map holds name; when removeTable(name) returns without error the
\* directory holds no <escaped name>.sql and the map does not hold name.
C2_DirectoryMatchesMapping ==
    [][\A t \in Threads :
          LET db == arg[t].db
              name == arg[t].name
          IN  /\ Returns(t, "createTable") =>
                    /\ Exists(files'[db], MetadataFile(name))
                    /\ ~Exists(files'[db], MetadataTmpPath(name))
                    /\ name \in DOMAIN tables'[db]
              /\ Returns(t, "removeTable") =>
                    /\ ~Exists(files'[db], MetadataFile(name))
                    /\ name \notin DOMAIN tables'[db]]_vars

\* The process was started again and the constructor has returned or thrown.
AfterRestart == crashes >= 1 /\ boot.phase \in {"done", "failed"}

\* The definition getCreateQuery gives, against the one createTable was
\* given: the same table, engine and structure, as a CREATE of this database.
SameDefinition(ast, query, db) ==
    /\ ast.table = query.table
    /\ ast.storage = query.storage
    /\ query.storage \in {"View", "MaterializedView"} => ast.select = query.select
    /\ ~ast.attach
    /\ ast.database = db

\* C3: after a createTable that succeeded, a new process constructed on the
\* same directory comes up without error, holds the table, and its
\* getCreateQuery gives the definition the table was created with.
C3_DurabilityRoundTrip ==
    \A t \in Threads :
        (arg[t].op = "createTable" /\ out[t].status = "ok" /\ AfterRestart) =>
            /\ boot.phase = "done"
            /\ arg[t].name \in DOMAIN tables[arg[t].db]
            /\ \A u \in Threads :
                  ( /\ arg[u].op = "getCreateQuery"
                    /\ arg[u].db = arg[t].db
                    /\ arg[u].name = arg[t].name
                    /\ pc[u] = "idle"
                    /\ out[u].status \in {"ok", "error"} ) =>
                        /\ out[u].status = "ok"
                        /\ SameDefinition(loc[u].ast, arg[t].query, arg[t].db)

\* C4: after a crash at any step of createTable, the constructor of the new
\* process returns without error, no .sql.tmp file is left, and every table
\* is either absent from both the map and the directory or in the map with
\* a complete metadata file.
C4_CrashConsistency ==
    AfterRestart =>
        /\ boot.phase = "done"
        /\ \A f \in DOMAIN files["default"] : ~endsWith(f, SQL_TMP)
        /\ \A n \in Names :
              /\ n \in DOMAIN tables["default"] <=>
                    Exists(files["default"], MetadataFile(n))
              /\ Exists(files["default"], MetadataFile(n)) =>
                    Parses(files["default"][MetadataFile(n)])

\* C5: when createTable fails by way of its catch block (the emplace
\* rejected, or the rename failed), it leaves no temporary and no published
\* file of its own and no entry of its own in the map.
C5_CreateFailureCleansUp ==
    [][\A t \in Threads :
          LET db == arg[t].db
              name == arg[t].name
          IN  (pc[t] = "create_catch" /\ pc'[t] = "idle") =>
                  /\ out'[t].status = "error"
                  /\ ~Exists(files'[db], MetadataTmpPath(name))
                  /\ ~(/\ name \in DOMAIN tables'[db]
                       /\ tables'[db][name] = arg[t].table)]_vars

RemovePlaces ==
    {"remove_lock", "remove_detach", "remove_file", "remove_catch_lock", "remove_catch"}

\* C6: removeTable takes the table bound to the name out of the map; if
\* deleting the metadata file then fails, the deletion's error is thrown,
\* and on return the map binds the name to that same table again;
\* removeTable never calls shutdown.  (Calls one at a time: SpecSeq.)
C6_RemoveRollback ==
    [][\A t \in Threads :
          LET db == arg[t].db
              name == arg[t].name
          IN  /\ (pc[t] = "remove_detach" /\ pc'[t] = "remove_file") =>
                    /\ name \in DOMAIN tables[db]
                    /\ loc'[t].res = tables[db][name]
                    /\ name \notin DOMAIN tables'[db]
              /\ (pc[t] \in RemovePlaces /\ pc'[t] # pc[t]) => shut' = shut
              /\ (pc[t] \in {"remove_file", "remove_catch_lock"}) =>
                    loc'[t].res = loc[t].res
              /\ (pc[t] = "remove_file" /\ pc'[t] = "remove_catch_lock") =>
                    loc'[t].exc \in {"FILE_NOT_FOUND", "FILE_ERROR"}
              /\ (pc[t] = "remove_catch" /\ pc'[t] = "idle") =>
                    /\ out'[t].status = "error"
                    /\ out'[t].code = loc[t].exc
                    /\ name \in DOMAIN tables'[db]
                    /\ tables'[db][name] = loc[t].res]_vars

\* C6 witness: a removeTable has failed because the file could not be
\* deleted, and the table it had detached is in the map.
C6_Witness ==
    \E t \in Threads :
        /\ arg[t].op = "removeTable"
        /\ FailedWith(t, {"FILE_ERROR", "FILE_NOT_FOUND"})
        /\ loc[t].res # NoStorage
        /\ arg[t].name \in DOMAIN tables[arg[t].db]
        /\ tables[arg[t].db][arg[t].name] = loc[t].res
        /\ loc[t].res \notin shut

\* C9: the iterator getIterator returns goes through the entries the map
\* held at the call, from the first to the last, each once, whatever is
\* done to the map meanwhile.
C9_SnapshotIteration ==
    [][\A t \in Threads :
          /\ (pc[t] = "iterate_copy" /\ pc'[t] = "iterate_loop") =>
                /\ loc'[t].snapshot = Snapshot(tables[arg[t].db])
                /\ loc'[t].it = 1
          /\ (pc[t] = "iterate_loop" /\ pc'[t] = "iterate_loop") =>
                /\ loc'[t].snapshot = loc[t].snapshot
                /\ \/ loc'[t].seen = loc[t].seen
                   \/ loc'[t].seen =
                         Append(loc[t].seen, loc[t].snapshot[Len(loc[t].seen) + 1])
          /\ (pc[t] = "iterate_loop" /\ pc'[t] = "idle") =>
                /\ out'[t].status = "ok"
                /\ loc'[t].seen = loc[t].snapshot]_vars


(***************************************************************************)
(* The constructor: what the log and the directory show.                   *)
(***************************************************************************)
Logged(kind, file) == \E i \in 1..Len(log) : log[i] = <<kind, file>>

\* A metadata file of a table whose escaped name starts with the marker.
Marked(file) == startsWith(file, INNER_PREFIX) /\ endsWith(file, SQL)

MarkedFiles == {f \in DOMAIN files[boot.db] : Marked(f)}
                   \cup {log[i][2] : i \in {k \in 1..Len(log) : Marked(log[k][2])}}

\* The entries of the log that loadTable makes.
Loads == {i \in 1..Len(log) : log[i][1] \in {"start", "finish", "throw"}}

\* C7: every table whose escaped file name starts with %2Einner%2E finishes
\* loading before the load of any other table starts, and these tables are
\* loaded one after another in the sorted order of their file names, with a
\* thread pool and without one.
C7_PriorityOrdering ==
    /\ \A i, j \in Loads :
          /\ (Marked(log[i][2]) /\ ~Marked(log[j][2])) => i < j
          /\ (Marked(log[i][2]) /\ Marked(log[j][2])
                 /\ StrLess(log[i][2], log[j][2])) => i < j
    /\ \A j \in Loads :
          ~Marked(log[j][2]) =>
              \A f \in MarkedFiles :
                  \E i \in 1..(j - 1) : log[i] = <<"finish", f>>

C7_Witness ==
    /\ boot.pool
    /\ \E i, j, k \in Loads :
          /\ i < j /\ j < k
          /\ log[i] = <<"finish", MetadataFile(InnerA)>>
          /\ log[j] = <<"finish", MetadataFile(InnerB)>>
          /\ log[k][1] = "start" /\ ~Marked(log[k][2])

\* The tasks that have kept an exception.
Failing == {u \in 1..NumTasks : boot.loaders[u].exc # NoExc}

\* Task u has run: to the end of its tables, or to the table that threw.
UnitRan(u) ==
    /\ TaskDone(u)
    /\ IF boot.loaders[u].exc = NoExc
       THEN \A k \in 1..Len(LoaderList(u)) : Logged("finish", LoaderList(u)[k])
       ELSE Logged("throw", boot.loaders[u].exc.file)

UnitFailure ==
    /\ boot.phase = "failed"
    /\ boot.error.code = "CANNOT_CREATE_TABLE_FROM_METADATA"
    /\ boot.loaders[0].exc = NoExc

\* C8: a table that fails to load in one task keeps no other task from
\* running, with a thread pool and without one; the constructor throws only
\* when every task has run, and what it throws is the exception of the
\* failed task with the lowest index.
C8_DeferredFailure ==
    /\ boot.phase \in {"join", "done"} => \A u \in 1..NumTasks : UnitRan(u)
    /\ boot.phase = "done" => Failing = {}
    /\ UnitFailure =>
          /\ \A u \in 1..NumTasks : UnitRan(u)
          /\ Failing # {}
          /\ \E u \in Failing :
                /\ \A v \in Failing : u <= v
                /\ boot.error = boot.loaders[u].exc

C8_Witness ==
    /\ UnitFailure
    /\ ~boot.pool
    /\ NumTasks >= 2
    /\ boot.loaders[1].exc # NoExc
    /\ boot.loaders[2].exc = NoExc
    /\ UnitRan(2)
    /\ LoaderList(2) # <<>>

\* The loop over the directory has gone through every entry.
Enumerated ==
    /\ boot.phase # "enumerate"
    /\ ~(boot.phase = "failed" /\ boot.error.code = "INCORRECT_FILE_NAME")

\* A name the loop over the directory accepts: a dot entry, a backup, a
\* temporary file or a metadata file.
RecognisedForm(file) ==
    \/ Head(file) = "."
    \/ endsWith(file, SQL_BAK)
    \/ endsWith(file, SQL_TMP)
    \/ endsWith(file, SQL)

\* C10 as stated: when the constructor is through with the directory no
\* file ending in .sql.tmp is left in it.
C10_StaleTmpCleanupAsStated ==
    Enumerated => \A f \in DOMAIN files[boot.db] : ~endsWith(f, SQL_TMP)

\* C10: when the constructor is through with the directory no file ending
\* in .sql.tmp is left in it, but for those whose name starts with a dot; no
\* table is loaded from a .sql.tmp file; and the only entries that make the
\* constructor throw INCORRECT_FILE_NAME are those of no recognised form.
C10_StaleTmpCleanup ==
    /\ Enumerated =>
          \A f \in DOMAIN files[boot.db] :
              endsWith(f, SQL_TMP) => Head(f) = "."
    /\ \A i \in Loads : ~endsWith(log[i][2], SQL_TMP)
    /\ \A n \in DOMAIN tables[boot.db] :
          \E f \in DOMAIN files[boot.db] :
              /\ endsWith(f, SQL)
              /\ Logged("finish", f)
              /\ Parses(files[boot.db][f])
              /\ parseQuery(files[boot.db][f]).table = n
    /\ (boot.phase = "failed" /\ boot.error.code = "INCORRECT_FILE_NAME") =>
          /\ boot.error.file \in DOMAIN files[boot.db]
          /\ ~RecognisedForm(boot.error.file)

C10_Witness ==
    /\ boot.phase = "done"
    /\ Logged("remove", MetadataTmpPath(TableE))
    /\ Logged("remove", MetadataTmpPath(TableA))
    /\ MetadataTmpPath(TableE) \notin DOMAIN files[boot.db]
    /\ MetadataTmpPath(TableA) \notin DOMAIN files[boot.db]
    /\ MetadataFile(TableB) \in DOMAIN files[boot.db]
    /\ TableB \in DOMAIN tables[boot.db]
    /\ TableE \notin DOMAIN tables[boot.db]

\* The entries of the directory that have no recognised form.
Unrecognised == {f \in DOMAIN files[boot.db] : ~RecognisedForm(f)}

\* C11: when the directory holds an entry that does not start with a dot
\* and ends in none of .sql, .sql.bak, .sql.tmp, the constructor throws
\* INCORRECT_FILE_NAME for such an entry out of the loop over the directory:
\* no loadTable is called and no table is attached, whatever else the
\* directory holds.
C11_UnknownExtensionRejected ==
    Unrecognised # {} =>
        /\ boot.phase \in {"enumerate", "failed"}
        /\ tables[boot.db] = NoTables
        /\ Loads = {}
        /\ boot.phase = "failed" =>
              /\ boot.error.code = "INCORRECT_FILE_NAME"
              /\ boot.error.file \in Unrecognised

C11_Witness ==
    /\ boot.phase = "failed"
    /\ Unrecognised # {}
    /\ Exists(files[boot.db], MetadataFile(TableB))
    /\ Exists(files[boot.db], MetadataFile(InnerA))
    /\ files[boot.db][MetadataFile(TableB)] = Attach(TableB)
    /\ tables[boot.db] = NoTables

\* C12: when loadTable finds a metadata file empty it removes the file and
\* returns: no table is attached, no exception is kept or thrown, and the
\* loader goes on to the next table of its list; the other loaders are left
\* as they are.
C12_EmptyFileTolerance ==
    [][\A f \in DOMAIN files[boot.db] :
          (files[boot.db][f] = <<>> /\ ~Logged("start", f) /\ Logged("start", f)') =>
              /\ f \notin DOMAIN files'[boot.db]
              /\ log' = log \o << <<"start", f>>, <<"finish", f>> >>
              /\ tables' = tables
              /\ boot'.phase # "failed"
              /\ \E u \in DOMAIN boot.loaders :
                    /\ boot.loaders[u].pos < Len(LoaderList(u))
                    /\ LoaderList(u)[boot.loaders[u].pos + 1] = f
                    /\ boot'.loaders[u].exc = NoExc
                    /\ boot'.loaders[u].pos = boot.loaders[u].pos + 1
                    /\ boot'.loaders[u].state =
                          IF boot'.loaders[u].pos = Len(LoaderList(u))
                          THEN "done" ELSE "ready"
                    /\ \A v \in DOMAIN boot.loaders \ {u} :
                          boot'.loaders[v] = boot.loaders[v]]_vars

C12_Witness ==
    /\ boot.phase = "done"
    /\ ~Exists(files[boot.db], MetadataFile(TableA))
    /\ TableA \notin DOMAIN tables[boot.db]
    /\ TableB \in DOMAIN tables[boot.db]
    /\ TableC \in DOMAIN tables[boot.db]
    /\ \E i, j \in Loads :
          /\ i < j
          /\ log[i] = <<"finish", MetadataFile(TableA)>>
          /\ log[j] = <<"start", MetadataFile(TableB)>>

(***************************************************************************)
(* detachTable, renameTable, the mutex.                                    *)
(***************************************************************************)
\* C13: detachTable and renameTable of a name that is not in the map throw
\* an error code that says the table is missing, which is not the
\* TABLE_ALREADY_EXISTS of attachTable and createTable, and change neither
\* the map nor the directory.
C13_AbsentNameNotFound ==
    [][\A t \in Threads :
          ( /\ pc[t] \in {"detach_erase", "rename_lookup"}
            /\ pc'[t] # pc[t]
            /\ arg[t].name \notin DOMAIN tables[arg[t].db] ) =>
              /\ out'[t].status = "error"
              /\ out'[t].code # "TABLE_ALREADY_EXISTS"
              /\ tables' = tables
              /\ files' = files]_vars

\* Thread t holds the mutex of a database; loader u holds that of its own.
Holds(t) == \E d \in Databases : mutex[d] = t
LoaderHolds(u) == mutex[boot.db] = LoaderId(u)

\* The places where a thread is in the scope of a lock_guard.
MapPlaces ==
    {"create_check", "create_emplace", "attach_emplace", "detach_erase",
     "remove_detach", "remove_catch", "rename_lookup"}

\* The places where the next thing a thread does is to read a file or to
\* have a table move its data.
ReadPlaces == {"get_create_query", "rename_read", "rename_hook"}

\* C14: a thread that holds the mutex of a database is at a read or an
\* update of the map; what it does while it holds the mutex changes no
\* file and moves no data; it reads no file and builds no table while it
\* holds it.  So for the loaders of the constructor.
C14_LockDiscipline ==
    [][/\ \A t \in Threads :
             /\ Holds(t) => pc[t] \in MapPlaces
             /\ pc[t] \in ReadPlaces => ~Holds(t)
             /\ (Holds(t) /\ pc'[t] # pc[t]) => (files' = files /\ data' = data)
       /\ \A u \in DOMAIN boot.loaders :
             /\ LoaderHolds(u) => boot.loaders[u].stage = "attach"
             /\ (LoaderHolds(u) /\ u \in DOMAIN boot'.loaders
                    /\ boot'.loaders[u] # boot.loaders[u]) => files' = files]_vars

C14_Witness ==
    /\ crashes >= 1
    /\ TableA \in DOMAIN tables["default"]
    /\ \E t \in Threads :
          /\ arg[t].to_database = "other"
          /\ pc[t] = "create_emplace"
          /\ mutex["other"] = t
          /\ Exists(files["other"], MetadataTmpPath(arg[t].name))

(***************************************************************************)
(* The order of the steps of createTable.                                  *)
(***************************************************************************)
\* Thread t is in createTable, or has left it, and the map binds the name
\* to the table of that call.
MadeVisible(t) ==
    /\ arg[t].op = "createTable"
    /\ arg[t].name \in DOMAIN tables[arg[t].db]
    /\ tables[arg[t].db][arg[t].name] = arg[t].table

\* C15 as stated: a name createTable has put into the map has its metadata
\* file under its final name.
C15_PublishedBeforeVisibleAsStated ==
    \A t \in Threads :
        MadeVisible(t) => Exists(files[arg[t].db], MetadataPath(arg[t].name))

\* C15: createTable writes and closes the temporary file, then puts the
\* name into the map, then renames the temporary file to its final name:
\* at the emplace the statement is in the temporary file and no file is
\* touched, and the final name is given by the step after it, which ends
\* the call.
C15_CreateOrdering ==
    [][\A t \in Threads :
          LET db == arg[t].db
              name == arg[t].name
              tmp == MetadataTmpPath(arg[t].name)
          IN  /\ (pc[t] = "create_emplace" /\ pc'[t] = "create_rename") =>
                    /\ Exists(files[db], tmp)
                    /\ files[db][tmp] = Statement(arg[t].query, arg[t].engine)
                    /\ files' = files
                    /\ name \notin DOMAIN tables[db]
                    /\ tables'[db][name] = arg[t].table
              /\ (pc[t] = "create_rename" /\ pc'[t] = "idle" /\ out'[t].status = "ok") =>
                    /\ tables' = tables
                    /\ MadeVisible(t)
                    /\ ~Exists(files'[db], tmp)
                    /\ Exists(files'[db], MetadataPath(name))
                    /\ files'[db][MetadataPath(name)] = files[db][tmp]]_vars

C15_Witness ==
    \E t \in Threads :
        /\ pc[t] = "create_rename"
        /\ MadeVisible(t)
        /\ Exists(files[arg[t].db], MetadataTmpPath(arg[t].name))
        /\ ~Exists(files[arg[t].db], MetadataPath(arg[t].name))
        /\ \E u \in Threads \ {t} : pc[u] # "idle"

\* The definition in a file has the form createTable keeps for ATTACH.
AttachForm(text, query, engine) ==
    /\ Parses(text)
    /\ LET p == parseQuery(text)
       IN  /\ p.attach
           /\ ~p.if_not_exists
           /\ ~p.is_populate
           /\ p.as_table = <<>>
           /\ p.as_database = ""
           /\ p.database = ""
           /\ p.table = query.table
           /\ p.storage = query.storage
           /\ p.select = IF engine \in {"View", "MaterializedView"}
                         THEN query.select ELSE ""

\* C16: whatever the query and the engine, the definition createTable
\* writes to the temporary file, and the one it leaves under the final
\* name, is an ATTACH without IF NOT EXISTS, POPULATE, AS table, AS database
\* and database, with the select clause of the query for View and
\* MaterializedView and none for other engines; the query of the caller
\* is the same at every step of the call.
C16_Sanitization ==
    [][\A t \in Threads :
          LET db == arg[t].db
              tmp == MetadataTmpPath(arg[t].name)
              path == MetadataPath(arg[t].name)
          IN  /\ (pc[t] = "create_write" /\ pc'[t] = "create_lock2") =>
                    AttachForm(files'[db][tmp], arg[t].query, arg[t].engine)
              /\ (pc[t] = "create_rename" /\ pc'[t] = "idle" /\ out'[t].status = "ok") =>
                    AttachForm(files'[db][path], arg[t].query, arg[t].engine)
              /\ (arg[t].op = "createTable" /\ pc[t] # "idle") =>
                    arg'[t].query = arg[t].query]_vars

C16_Witness ==
    \E t \in Threads :
        /\ pc[t] = "idle"
        /\ arg[t].op = "createTable"
        /\ out[t].status = "ok"
        /\ arg[t].engine = "Log"
        /\ arg[t].query.select # ""
        /\ arg[t].query.if_not_exists
        /\ arg[t].query.is_populate
        /\ arg[t].query.as_table # <<>>
        /\ arg[t].query.as_database # ""
        /\ arg[t].query.database # ""
        /\ parseQuery(files[arg[t].db][MetadataPath(arg[t].name)]).select = ""
        /\ \E f \in DOMAIN files[arg[t].db] :
              /\ Parses(files[arg[t].db][f])
              /\ parseQuery(files[arg[t].db][f]).storage = "MaterializedView"
              /\ parseQuery(files[arg[t].db][f]).select # ""

(***************************************************************************)
(* The constructor: the bunches.                                           *)
(***************************************************************************)
\* The names of the first n tasks, one task after the other.
RECURSIVE TasksUpTo(_)
TasksUpTo(n) ==
    IF n = 0 THEN <<>> ELSE TasksUpTo(n - 1) \o Bunch(boot.normal, n - 1, BunchSize)

\* The tasks a file name is given to.
TasksOf(file) ==
    {i \in 1..NumTasks :
        \E k \in 1..Len(Bunch(boot.normal, i - 1, BunchSize)) :
            Bunch(boot.normal, i - 1, BunchSize)[k] = file}

Starts == {i \in 1..Len(log) : log[i][1] = "start"}

\* C17: once the directory is read, the tasks are consecutive slices of the
\* sorted names of the tables that are not loaded first: put one after the
\* other they give these names back, none is empty or longer than the bunch
\* size, all but the last have exactly that size, every name is in one
\* task; no table is loaded twice, and the tables of a task are loaded in
\* the order of their names.
C17_Batching ==
    Enumerated =>
        /\ IsSorted(boot.normal)
        /\ TasksUpTo(NumTasks) = boot.normal
        /\ \A i \in 1..NumTasks :
              /\ Len(Bunch(boot.normal, i - 1, BunchSize)) \in 1..BunchSize
              /\ i < NumTasks => Len(Bunch(boot.normal, i - 1, BunchSize)) = BunchSize
        /\ \A k \in 1..Len(boot.normal) : Cardinality(TasksOf(boot.normal[k])) = 1
        /\ \A i, j \in Starts : log[i][2] = log[j][2] => i = j
        /\ \A i, j \in Starts :
              (i < j /\ TasksOf(log[i][2]) # {} /\ TasksOf(log[i][2]) = TasksOf(log[j][2]))
                  => StrLess(log[i][2], log[j][2])

\* Two full tasks and no third one, run by the pool, a table of the second
\* loaded before a table of the first.
C17_Witness ==
    /\ Enumerated
    /\ boot.pool
    /\ NumTasks = 2
    /\ Len(boot.normal) = 2 * BunchSize
    /\ \A k \in 1..Len(boot.normal) : Logged("start", boot.normal[k])
    /\ \E i, j \in Starts : i < j /\ TasksOf(log[i][2]) = {2} /\ TasksOf(log[j][2]) = {1}

(***************************************************************************)
(* renameTable: the order of its steps, and what a failure leaves.         *)
(***************************************************************************)
\* Thread t is in renameTable, past the lookup of the table.
Renaming(t) ==
    /\ arg[t].to_database # ""
    /\ pc[t] \notin {"idle", "rename_cast", "rename_lookup_lock", "rename_lookup"}

\* The name renameTable was called with, whichever method it is in.
RenamedFrom(t) == IF loc[t].caller = <<>> THEN arg[t].name ELSE loc[t].caller[2]

Visible(db, name, table) == name \in DOMAIN tables[db] /\ tables[db][name] = table

\* The order of the steps of renameTable as the one client sees it: while
\* a renameTable is past its lookup the table is in the map of the source
\* under the old name or in the map of the target under the new one; when
\* createTable has returned and removeTable has not started it is in both;
\* when renameTable has returned without error it is in the map of the
\* target and the old name is in the map of the source no more.
RenameOrdering ==
    \A t \in Threads :
        /\ Renaming(t) =>
              \/ Visible("default", RenamedFrom(t), arg[t].table)
              \/ Visible(arg[t].to_database, arg[t].to_table_name, arg[t].table)
        /\ (pc[t] = "rename_returned" /\ arg[t].op = "createTable") =>
              /\ Visible("default", RenamedFrom(t), arg[t].table)
              /\ Visible(arg[t].to_database, arg[t].to_table_name, arg[t].table)
        /\ (pc[t] = "idle" /\ arg[t].op = "renameTable" /\ out[t].status = "ok") =>
              /\ Visible(arg[t].to_database, arg[t].to_table_name, arg[t].table)
              /\ arg[t].name \notin DOMAIN tables["default"]

RenameOrderingSeen ==
    \E t \in Threads :
        /\ pc[t] = "idle" /\ arg[t].op = "renameTable" /\ out[t].status = "ok"
        /\ arg[t].to_database = "other"

\* C18, the interruption: when the process has died in a renameTable
\* between the return of createTable and the start of removeTable, the
\* database that is constructed on the directory of the source has the
\* table under its old name.
C18_InterruptedRenameVisible ==
    \A t \in Threads :
        (/\ out[t].status = "crashed"
         /\ out[t].code = "rename_returned"
         /\ arg[t].op = "createTable"
         /\ boot.phase \in {"done", "failed"})
            => arg[t].name \in DOMAIN tables["default"]

(***************************************************************************)
(* removeTable among other threads.                                        *)
(***************************************************************************)
\* C19: when the catch block of removeTable ends the call, the error that
\* leaves it is the one the removal of the file gave, and the map binds
\* the name to the table removeTable had detached, whatever other threads
\* have attached or created meanwhile.
C19_RollbackConservesHandle ==
    [][\A t \in Threads :
          (pc[t] = "remove_catch" /\ pc'[t] # "remove_catch") =>
              /\ out'[t].code = loc[t].exc
              /\ arg[t].name \in DOMAIN tables'[arg[t].db]
              /\ tables'[arg[t].db][arg[t].name] = loc[t].res]_vars

\* C20: when renameTable, the first call made on the databases, has ended
\* with an error, no table has had its data moved, the map and the
\* directory of the source are as the constructor left them, and the map
\* and the directory of the target are empty as they were.
C20_FailedRenameChangesNothing ==
    \A t \in Threads :
        (/\ calls = 1
         /\ pc[t] = "idle"
         /\ arg[t].op = "renameTable"
         /\ out[t].status = "error")
            => /\ data = {}
               /\ \E dir \in LiveDirectories :
                     /\ files["default"] = dir
                     /\ tables["default"] = LoadedTables(dir)
               /\ files["other"] = NoFiles
               /\ tables["other"] = NoTables

====
